---------------------------- MODULE Spec2Model ----------------------------
(***************************************************************************)
(* Model of solidKit.py: the permutation codec (ref2ord / ord2S), the      *)
(* rewriting of a solid in a chosen facet order (watermark) and the STL    *)
(* text reader (Solid.read_file).                                          *)
(*                                                                         *)
(* Python lists are sequences; a Python index k is the TLA+ position k+1.  *)
(* Facet indices keep their Python values 0..n-1.  A bit string is a       *)
(* sequence of the one-character strings "0" and "1".                      *)
(***************************************************************************)
EXTENDS Integers, Sequences, FiniteSets

VARIABLES
    ref,        \* reference order handed to the codec
    msg,        \* message handed to ref2ord
    obs,        \* observed order handed to ord2S
    pool,       \* ref2ord: _ref, the working copy of ref
    ord,        \* ref2ord: _ord, the order built so far / returned
    Id,         \* ref2ord: Id
    q,          \* ref2ord: q
    S,          \* bit string returned by ord2S
    outcome,    \* how the last codec call ended: "none", "ok", "ValueError"
    file,       \* watermark: facet ids in the order written to the file
    S2,         \* bit string extracted from the rewritten file
    pc,         \* position of the codec scenario
    lines,      \* read_file: lines of the text
    i,          \* read_file: i
    name,       \* Solid.name
    normal,     \* read_file: normal
    vertexs,    \* read_file: vertexs
    cntf,       \* read_file: cntf
    Facets,     \* Solid.Facets
    facetsID,   \* Solid.facetsID
    stdout,     \* what read_file printed
    rpc         \* position of read_file

codecVars == <<ref, msg, obs, pool, ord, Id, q, S, outcome, file, S2, pc>>
readVars  == <<lines, i, name, normal, vertexs, cntf, Facets, facetsID, stdout, rpc>>
vars      == <<ref, msg, obs, pool, ord, Id, q, S, outcome, file, S2, pc,
               lines, i, name, normal, vertexs, cntf, Facets, facetsID, stdout, rpc>>

---------------------------------------------------------------------------
(* Bounds *)

MaxN == 5          \* facets of a solid in the codec scenarios
MaxLen == 6        \* bits of a message
CapN == 6          \* facets in the capacity scenario
MaxDecN == 4       \* facets in the extraction scenario
MaxBadN == 3       \* facets in the desynchronisation scenario
MaxBlocks == 2     \* facet blocks of a text
MaxVerts == 4      \* vertex lines of a facet block

---------------------------------------------------------------------------
(* Arithmetic of the codec *)

\* ceil(q/2)
CeilHalf(x) == (x + 1) \div 2

\* floor(q/2)
FloorHalf(x) == x \div 2

RECURSIVE FloorLog2(_)
\* int(np.log2(n)) for n >= 1
FloorLog2(n) == IF n <= 1 THEN 0 ELSE 1 + FloorLog2(n \div 2)

RECURSIVE Factorial(_)
Factorial(n) == IF n <= 1 THEN 1 ELSE n * Factorial(n - 1)

\* floor(log2(n!)), the number of bits Solid.__str__ announces
Capacity(n) == FloorLog2(Factorial(n))

Zeros(k) == [j \in 1..k |-> "0"]

Reverse(s) == [j \in 1..Len(s) |-> s[Len(s) + 1 - j]]

\* the position counted from 1 instead of from 0
IndexOfOneBased(s, item) == CHOOSE j \in 1..Len(s) :
                               s[j] = item /\ \A k \in 1..(j - 1) : s[k] # item

\* list.index: Python index of the first occurrence of item in s
IndexOf(s, item) == (CHOOSE j \in 1..Len(s) :
                        s[j] = item /\ \A k \in 1..(j - 1) : s[k] # item) - 1

Occurs(s, item) == \E j \in 1..Len(s) : s[j] = item

\* the removal without the move of the last element into the hole
SwapRemovePopOnly(s, k) == SubSeq(s, 1, Len(s) - 1)

\* _ref[Id] = _ref[-1]; _ref.pop()
SwapRemove(s, k) == SubSeq([s EXCEPT ![k + 1] = s[Len(s)]], 1, Len(s) - 1)

---------------------------------------------------------------------------
(* ref2ord *)

\* _ref, _ord = ref.copy(), [] ; Id, q = 0, len(_ref)
EncInit(r) == [pool |-> r, ord |-> <<>>, Id |-> 0, q |-> Len(r)]

\* the for body with the lower half taken as floor(q/2) instead of ceil(q/2)
EncStepFloorLower(st, bit) ==
    LET Id1 == IF bit = "1" THEN st.Id + CeilHalf(st.q) ELSE st.Id
        q1  == FloorHalf(st.q)
    IN  IF q1 = 1
        THEN LET p == SwapRemove(st.pool, Id1)
             IN  [pool |-> p, ord |-> Append(st.ord, st.pool[Id1 + 1]),
                  Id |-> 0, q |-> Len(p)]
        ELSE [st EXCEPT !.Id = Id1, !.q = q1]

\* one pass of the for body, after the break test
EncStep(st, bit) ==
    LET Id1 == IF bit = "1" THEN st.Id + CeilHalf(st.q) ELSE st.Id
        q1  == IF bit = "1" THEN FloorHalf(st.q) ELSE st.q - FloorHalf(st.q)
    IN  IF q1 = 1
        THEN LET p == SwapRemove(st.pool, Id1)
             IN  [pool |-> p, ord |-> Append(st.ord, st.pool[Id1 + 1]),
                  Id |-> 0, q |-> Len(p)]
        ELSE [st EXCEPT !.Id = Id1, !.q = q1]

RECURSIVE EncLoop(_, _)
\* for bit in bits: if len(_ref) == 1: break ; ...
EncLoop(st, bits) ==
    IF bits = <<>> \/ Len(st.pool) = 1
    THEN st
    ELSE EncLoop(EncStep(st, Head(bits)), Tail(bits))

\* msg + "0"*int(np.log2(len(_ref)))
Padded(r, m) == m \o Zeros(FloorLog2(Len(r)))

\* the tail of ref2ord without the reverse
EncFillNoReverse(st) ==
    [st EXCEPT !.ord = st.ord \o st.pool, !.pool = Tail(st.pool)]

\* _ord.append(_ref[0]); _ref = _ref[1:]; if len(_ref): _ref.reverse(); _ord += _ref
EncFill(st) ==
    LET rest == Reverse(Tail(st.pool))
    IN  [st EXCEPT !.ord = Append(st.ord, st.pool[1]) \o rest, !.pool = rest]

ref2ord(r, m) == EncFill(EncLoop(EncInit(r), Padded(r, m))).ord

---------------------------------------------------------------------------
(* ord2S *)

\* an omitted argument (None) is the empty set, a given one a singleton
None == {}
Some(x) == {x}

RECURSIVE DecBitsStrict(_, _)
\* the while loop with the upper half tested by > instead of >=
DecBitsStrict(k, n) ==
    IF n <= 1 THEN <<>>
    ELSE IF k > CeilHalf(n)
         THEN <<"1">> \o DecBitsStrict(k - CeilHalf(n), FloorHalf(n))
         ELSE <<"0">> \o DecBitsStrict(k, CeilHalf(n))

RECURSIVE DecBits(_, _)
\* while q > 1: ...
DecBits(k, n) ==
    IF n <= 1 THEN <<>>
    ELSE IF k >= CeilHalf(n)
         THEN <<"1">> \o DecBits(k - CeilHalf(n), FloorHalf(n))
         ELSE <<"0">> \o DecBits(k, CeilHalf(n))

RECURSIVE DecLoop(_, _, _)
\* for item in _ord: ... ; _ref.index(item) raises ValueError when item is absent
DecLoop(p, items, bits) ==
    IF items = <<>> THEN [outcome |-> "ok", S |-> bits]
    ELSE IF ~Occurs(p, Head(items)) THEN [outcome |-> "ValueError", S |-> <<>>]
    ELSE LET k == IndexOf(p, Head(items))
         IN  DecLoop(SwapRemove(p, k), Tail(items), bits \o DecBits(k, Len(p)))

\* the default order counted down instead of up
IdentityOrdDown(r) == [j \in 1..Len(r) |-> Len(r) - j]

\* [i for i in range(len(ref))]
IdentityOrd(r) == [j \in 1..Len(r) |-> j - 1]

ord2S(r, o) ==
    DecLoop(r, IF o = None THEN IdentityOrd(r) ELSE CHOOSE x \in o : TRUE, <<>>)

---------------------------------------------------------------------------
(* Inputs *)

Bits == {"0", "1"}

BitStrings(lo, hi) == UNION {[1..k -> Bits] : k \in lo..hi}

\* the orders of the facet indices 0..n-1
Perms(n) == {p \in [1..n -> 0..(n - 1)] : \A a, b \in 1..n : p[a] = p[b] => a = b}

IsPermOf(o, r) ==
    /\ Len(o) = Len(r)
    /\ \A j \in 1..Len(r) : \E k \in 1..Len(o) : o[k] = r[j]

StartsWith(s, b) == Len(s) >= Len(b) /\ SubSeq(s, 1, Len(b)) = b

NoRead == <<lines, i, name, normal, vertexs, cntf, Facets, facetsID, stdout, rpc>>

ReadIdle ==
    /\ lines = <<>> /\ i = 0 /\ name = "" /\ normal = 0 /\ vertexs = <<>>
    /\ cntf = 0 /\ Facets = <<>> /\ facetsID = <<>> /\ stdout = <<>> /\ rpc = "idle"

CodecIdle ==
    /\ ref = <<>> /\ msg = <<>> /\ obs = <<>> /\ pool = <<>> /\ ord = <<>>
    /\ Id = 0 /\ q = 0 /\ S = <<>> /\ outcome = "none" /\ file = <<>>
    /\ S2 = <<>> /\ pc = "idle"

---------------------------------------------------------------------------
(* Embedding scenario: ref2ord(ref, msg), then ord2S(ref, ord) *)

Init ==
    /\ \E n \in 1..MaxN : ref \in Perms(n)
    /\ msg \in BitStrings(0, MaxLen)
    /\ obs = <<>> /\ pool = <<>> /\ ord = <<>> /\ Id = 0 /\ q = 0
    /\ S = <<>> /\ outcome = "none" /\ file = <<>> /\ S2 = <<>>
    /\ pc = "start"
    /\ ReadIdle

\* ref2ord up to the end of its for loop
EncodeLoop ==
    /\ pc = "start"
    /\ LET st == EncLoop(EncInit(ref), Padded(ref, msg))
       IN  /\ pool' = st.pool
           /\ ord' = st.ord
           /\ Id' = st.Id
           /\ q' = st.q
    /\ pc' = "filler"
    /\ UNCHANGED <<ref, msg, obs, S, outcome, file, S2>>
    /\ UNCHANGED NoRead

\* the rest of ref2ord, and its return
EncodeFill ==
    /\ pc = "filler"
    /\ LET st == EncFill([pool |-> pool, ord |-> ord, Id |-> Id, q |-> q])
       IN  /\ pool' = st.pool
           /\ ord' = st.ord
    /\ outcome' = "ok"
    /\ pc' = "encoded"
    /\ UNCHANGED <<ref, msg, obs, Id, q, S, file, S2>>
    /\ UNCHANGED NoRead

\* ord2S(ref, ord) on the order ref2ord returned
Decode ==
    /\ pc = "encoded"
    /\ LET r == ord2S(ref, Some(ord))
       IN  /\ S' = r.S
           /\ outcome' = r.outcome
    /\ pc' = "decoded"
    /\ UNCHANGED <<ref, msg, obs, pool, ord, Id, q, file, S2>>
    /\ UNCHANGED NoRead

Next == EncodeLoop \/ EncodeFill \/ Decode

Spec == Init /\ [][Next]_vars

---------------------------------------------------------------------------
(* Capacity scenario: the facets are already in canonical order and the     *)
(* message has exactly floor(log2(n!)) bits                                 *)

InitCap ==
    /\ \E n \in 2..CapN :
          /\ ref = [j \in 1..n |-> j - 1]
          /\ msg \in BitStrings(Capacity(n), Capacity(n))
    /\ obs = <<>> /\ pool = <<>> /\ ord = <<>> /\ Id = 0 /\ q = 0
    /\ S = <<>> /\ outcome = "none" /\ file = <<>> /\ S2 = <<>>
    /\ pc = "start"
    /\ ReadIdle

SpecCap == InitCap /\ [][Next]_vars

---------------------------------------------------------------------------
(* Claims on ref2ord *)

RECURSIVE G(_)
\* sum over q = 2..n of floor(log2(q))
G(n) == IF n <= 1 THEN 0 ELSE FloorLog2(n) + G(n - 1)

\* the state ref2ord is in when the bits of msg alone are used up
AfterMsg == EncLoop(EncInit(ref), msg)

\* the state ref2ord is in when its for loop ends
AfterPadding == EncLoop(EncInit(ref), Padded(ref, msg))

\* C1: for n >= 2 and every message of at most floor(log2(n!)) bits, decoding
\* the encoded order gives a string that starts with the message.
RoundTripCapacity ==
    (pc = "decoded" /\ Len(ref) >= 2 /\ Len(msg) <= Capacity(Len(ref)))
        => (outcome = "ok" /\ StartsWith(S, msg))

\* C2: ref2ord returns a sequence of length n in which every element of ref
\* occurs exactly once, whatever the length of the message.
EncodePermutation ==
    pc \in {"encoded", "decoded"} =>
        /\ Len(ord) = Len(ref)
        /\ \A j \in 1..Len(ref) :
              Cardinality({k \in 1..Len(ord) : ord[k] = ref[j]}) = 1

EncodePermutationWitness ==
    /\ pc = "encoded"
    /\ Len(ref) >= 3
    /\ Len(msg) > Capacity(Len(ref))
    /\ IsPermOf(ord, ref)

\* C3: a message longer than floor(log2(n!)) bits makes ref2ord end in an
\* error and return no order.
CapacityRejection ==
    (pc = "encoded" /\ Len(msg) > Capacity(Len(ref)))
        => (outcome # "ok" /\ ord = <<>>)

\* C8 as stated: when the bits run out with k > 1 elements in the pool, the
\* last k entries of the returned order are the pool reversed.
FillerReversedPool ==
    [][(pc = "filler" /\ Len(pool) > 1) => ord' = ord \o Reverse(pool)]_vars

\* C8 amended: when the bits run out with k > 1 elements in the pool, the
\* last k entries of the returned order are pool[0] followed by the rest of
\* the pool reversed: pool[0], pool[k-1], ..., pool[1].
FillerFirstThenReversed ==
    [][(pc = "filler" /\ Len(pool) > 1)
          => ord' = ord \o <<pool[1]>> \o Reverse(Tail(pool))]_vars

FillerWitness ==
    /\ pc = "encoded"
    /\ Len(pool) >= 2
    /\ Len(ord) = Len(ref)
    /\ SubSeq(ord, Len(ord) - Len(pool) + 1, Len(ord)) = pool

\* C9: for n >= 2 and every message of at most G(n) bits, decoding the
\* encoded order gives a string that starts with the message.
RoundTripGuaranteed ==
    (pc = "decoded" /\ Len(ref) >= 2 /\ Len(msg) <= G(Len(ref)))
        => (outcome = "ok" /\ StartsWith(S, msg))

\* a message of 1..G(n) bits that ends in the middle of a selection round,
\* whose padding leaves a further round unfinished
RoundTripGuaranteedWitness ==
    /\ pc = "decoded"
    /\ Len(ref) >= 4
    /\ Len(msg) >= 1 /\ Len(msg) <= G(Len(ref))
    /\ AfterMsg.q < Len(AfterMsg.pool)
    /\ Len(AfterPadding.ord) > Len(AfterMsg.ord)
    /\ AfterPadding.q < Len(AfterPadding.pool)
    /\ StartsWith(S, msg)

---------------------------------------------------------------------------
(* watermark and the reference order of the file it writes *)

\* for Id in ord: facet = solid.facetsID[Id]; f.writelines(facet.serialize)
Written(o) == [j \in 1..Len(o) |-> o[j]]

\* get_ref on the solid read back from that file: the facets come in the same
\* geometric order as in r, each under the index it has in the file
RefOfFile(r, f) == [k \in 1..Len(r) |-> IndexOf(f, r[k])]

---------------------------------------------------------------------------
(* Extraction scenario: ord2S(ref, obs) on an observed order, then          *)
(* ref2ord on the bits it returned; and the file written in that order      *)

InitDec ==
    /\ \E n \in 1..MaxDecN : ref \in Perms(n) /\ obs \in Perms(n)
    /\ msg = <<>> /\ pool = <<>> /\ ord = <<>> /\ Id = 0 /\ q = 0
    /\ S = <<>> /\ outcome = "none" /\ file = <<>> /\ S2 = <<>>
    /\ pc = "observed"
    /\ ReadIdle

\* ord2S(ref, obs)
Extract ==
    /\ pc = "observed"
    /\ LET r == ord2S(ref, Some(obs))
       IN  /\ S' = r.S
           /\ outcome' = r.outcome
           /\ pc' = IF r.outcome = "ok" THEN "extracted" ELSE "failed"
    /\ UNCHANGED <<ref, msg, obs, pool, ord, Id, q, file, S2>>
    /\ UNCHANGED NoRead

\* ref2ord(ref, S) on the bits ord2S returned
ReEncode ==
    /\ pc = "extracted"
    /\ msg' = S
    /\ ord' = ref2ord(ref, S)
    /\ pc' = "reencoded"
    /\ UNCHANGED <<ref, obs, pool, Id, q, S, outcome, file, S2>>
    /\ UNCHANGED NoRead

\* watermark(solid, obs)
Watermark ==
    /\ pc = "extracted"
    /\ file' = Written(obs)
    /\ pc' = "written"
    /\ UNCHANGED <<ref, msg, obs, pool, ord, Id, q, S, outcome, S2>>
    /\ UNCHANGED NoRead

\* ord2S(get_ref(Solid(file))), with ord omitted
ExtractFile ==
    /\ pc = "written"
    /\ LET r == ord2S(RefOfFile(ref, file), None)
       IN  /\ S2' = r.S
           /\ outcome' = r.outcome
    /\ pc' = "read"
    /\ UNCHANGED <<ref, msg, obs, pool, ord, Id, q, S, file>>
    /\ UNCHANGED NoRead

NextDec == Extract \/ ReEncode \/ Watermark \/ ExtractFile

SpecDec == InitDec /\ [][NextDec]_vars

---------------------------------------------------------------------------
(* Desynchronisation scenario: ord2S(ref, obs) on any sequence of indices,  *)
(* the index n that ref does not hold included                              *)

InitBad ==
    /\ \E n \in 1..MaxBadN :
          /\ ref \in Perms(n)
          /\ obs \in UNION {[1..k -> 0..n] : k \in 0..(n + 1)}
    /\ msg = <<>> /\ pool = <<>> /\ ord = <<>> /\ Id = 0 /\ q = 0
    /\ S = <<>> /\ outcome = "none" /\ file = <<>> /\ S2 = <<>>
    /\ pc = "observed"
    /\ ReadIdle

NextBad == Extract

SpecBad == InitBad /\ [][NextBad]_vars

---------------------------------------------------------------------------
(* Claims on ord2S *)

\* ceil(log2(n)) for n >= 1
CeilLog2(n) == IF n <= 1 THEN 0 ELSE FloorLog2(n - 1) + 1

\* C4: an observed order that is not a permutation of the elements of ref
\* (a foreign index, a duplicate, or another length) makes ord2S end in an
\* error and return no bit string.
DesyncDetected ==
    (pc \in {"extracted", "failed"} /\ ~IsPermOf(obs, ref))
        => (outcome = "ValueError" /\ S = <<>>)

\* the part of C4 the code meets: an order at least as long as ref that is
\* not a permutation of it holds a foreign index or a duplicate, and fails
DesyncDetectedFullLength ==
    (pc \in {"extracted", "failed"} /\ ~IsPermOf(obs, ref) /\ Len(obs) >= Len(ref))
        => (outcome = "ValueError" /\ S = <<>>)

\* C5 as stated: decoding ref against itself gives floor(log2(n!)) zeros first.
IdentityProbeCapacity ==
    (pc = "extracted" /\ obs = ref /\ Len(ref) >= 2)
        => StartsWith(S, Zeros(Capacity(Len(ref))))

\* C5 amended: decoding ref against itself gives ceil(log2(n)) zeros first,
\* the bits of the first element; floor(log2(n!)) zeros only for n <= 3.
IdentityProbeFirstElement ==
    (pc \in {"extracted", "failed"} /\ obs = ref /\ Len(ref) >= 2)
        => /\ outcome = "ok"
           /\ StartsWith(S, Zeros(CeilLog2(Len(ref))))
           /\ (Len(ref) <= 3 => StartsWith(S, Zeros(Capacity(Len(ref)))))

IdentityProbeWitness ==
    /\ pc = "extracted"
    /\ obs = ref
    /\ Len(ref) >= 4
    /\ StartsWith(S, Zeros(CeilLog2(Len(ref))))
    /\ Occurs(SubSeq(S, 1, Capacity(Len(ref))), "1")

\* C7: encoding the bits decoded from a permutation gives that permutation
\* back, so two different orders never decode to the same bits.
EncodeInvertsDecode ==
    pc = "reencoded" => (outcome = "ok" /\ ord = obs)

EncodeInvertsDecodeWitness ==
    /\ pc = "reencoded"
    /\ Len(ref) >= 4
    /\ obs # ref
    /\ Occurs(S, "0") /\ Occurs(S, "1")
    /\ ord = obs

\* C10: the bits extracted from the file written in the order obs, decoding
\* the identity order against the file's reference order, are the bits of
\* ord2S(ref, obs).
FileExtractionAgrees ==
    pc = "read" => (outcome = "ok" /\ S2 = S)

FileExtractionWitness ==
    /\ pc = "read"
    /\ Len(ref) >= 4
    /\ obs # ref
    /\ obs # IdentityOrd(ref)
    /\ RefOfFile(ref, file) # ref
    /\ Occurs(S2, "1")
    /\ S2 = S

---------------------------------------------------------------------------
(* Solid.read_file *)

\* A line is the list line.strip().split(" ") gives; the three numbers of a
\* normal or of a vertex are one tag.  A text is a solid line, then facet
\* blocks, then endsolid; a block has nv vertex lines and may lack endloop.

BlockKinds == [nv : 0..MaxVerts, loop : BOOLEAN]

BlockLines(b, k) ==
    <<  <<"facet", "normal", k>>, <<"outer", "loop">>  >>
    \o [j \in 1..b.nv |-> <<"vertex", 10 * k + j>>]
    \o (IF b.loop THEN << <<"endloop">> >> ELSE <<>>)
    \o << <<"endfacet">> >>

RECURSIVE BlocksLines(_, _)
BlocksLines(bs, k) ==
    IF k > Len(bs) THEN <<>> ELSE BlockLines(bs[k], k) \o BlocksLines(bs, k + 1)

Text(bs) == << <<"solid", "cube">> >> \o BlocksLines(bs, 1) \o << <<"endsolid">> >>

\* Facet(normal, vertexs[0], vertexs[1], vertexs[2])
Facet(nrm, vs) == [normal |-> nrm, v1 |-> vs[1], v2 |-> vs[2], v3 |-> vs[3]]

\* self.facetsID[cntf] = f
DictPut(d, key, val) ==
    [x \in (DOMAIN d) \cup {key} |-> IF x = key THEN val ELSE d[x]]

\* line[0] of lines[i]
Keyword == lines[i + 1][1]

\* Solid() with no file, and the text read_file is called on
InitRead ==
    /\ \E k \in 0..MaxBlocks : \E bs \in [1..k -> BlockKinds] : lines = Text(bs)
    /\ i = 0 /\ name = "None" /\ normal = "None" /\ vertexs = <<>>
    /\ cntf = 0 /\ Facets = <<>> /\ facetsID = <<>> /\ stdout = <<>>
    /\ rpc = "call"
    /\ CodecIdle

\* lines = f.readlines(); normal, vertexs = None, []; cntf, i = 0, 0
ReadOpen ==
    /\ rpc = "call"
    /\ normal' = "None" /\ vertexs' = <<>> /\ cntf' = 0 /\ i' = 0
    /\ rpc' = "loop"
    /\ UNCHANGED <<lines, name, Facets, facetsID, stdout>>
    /\ UNCHANGED codecVars

InLoop == rpc = "loop" /\ i < Len(lines)

ReadSolid ==
    /\ InLoop /\ Keyword = "solid"
    /\ name' = lines[i + 1][2]
    /\ i' = i + 1
    /\ UNCHANGED <<lines, normal, vertexs, cntf, Facets, facetsID, stdout, rpc>>
    /\ UNCHANGED codecVars

ReadFacet ==
    /\ InLoop /\ Keyword = "facet"
    /\ normal' = lines[i + 1][3]
    /\ i' = i + 1
    /\ UNCHANGED <<lines, name, vertexs, cntf, Facets, facetsID, stdout, rpc>>
    /\ UNCHANGED codecVars

ReadVertex ==
    /\ InLoop /\ Keyword = "vertex"
    /\ vertexs' = Append(vertexs, lines[i + 1][2])
    /\ i' = i + 1
    /\ UNCHANGED <<lines, name, normal, cntf, Facets, facetsID, stdout, rpc>>
    /\ UNCHANGED codecVars

\* if len(vertexs) != 3: print(...); return
ReadEndloop ==
    /\ InLoop /\ Keyword = "endloop"
    /\ IF Len(vertexs) # 3
       THEN /\ stdout' = Append(stdout, "Oops! One facet not 3 vertexs!")
            /\ rpc' = "returned"
            /\ i' = i
       ELSE /\ i' = i + 1
            /\ UNCHANGED <<stdout, rpc>>
    /\ UNCHANGED <<lines, name, normal, vertexs, cntf, Facets, facetsID>>
    /\ UNCHANGED codecVars

\* vertexs[0], vertexs[1], vertexs[2] raise IndexError on a shorter list
ReadEndfacet ==
    /\ InLoop /\ Keyword = "endfacet"
    /\ IF Len(vertexs) < 3
       THEN /\ rpc' = "IndexError"
            /\ UNCHANGED <<i, vertexs, cntf, Facets, facetsID>>
       ELSE /\ facetsID' = DictPut(facetsID, cntf, Facet(normal, vertexs))
            /\ Facets' = Append(Facets, Facet(normal, vertexs))
            /\ cntf' = cntf + 1
            /\ vertexs' = <<>>
            /\ i' = i + 1
            /\ rpc' = rpc
    /\ UNCHANGED <<lines, name, normal, stdout>>
    /\ UNCHANGED codecVars

\* any other line (outer loop, endsolid): only i += 1
ReadOther ==
    /\ InLoop
    /\ Keyword \notin {"solid", "facet", "vertex", "endloop", "endfacet"}
    /\ i' = i + 1
    /\ UNCHANGED <<lines, name, normal, vertexs, cntf, Facets, facetsID, stdout, rpc>>
    /\ UNCHANGED codecVars

\* the while condition fails: the function returns None
ReadReturn ==
    /\ rpc = "loop" /\ i >= Len(lines)
    /\ rpc' = "returned"
    /\ UNCHANGED <<lines, i, name, normal, vertexs, cntf, Facets, facetsID, stdout>>
    /\ UNCHANGED codecVars

NextRead ==
    \/ ReadOpen \/ ReadSolid \/ ReadFacet \/ ReadVertex \/ ReadEndloop
    \/ ReadEndfacet \/ ReadOther \/ ReadReturn

SpecRead == InitRead /\ [][NextRead]_vars

---------------------------------------------------------------------------
(* Claims on read_file *)

\* the number of vertex lines between the outer loop line before e and e
VertexLinesBefore(e) ==
    LET o == CHOOSE j \in 1..e :
                 /\ lines[j][1] = "outer"
                 /\ \A k \in (j + 1)..e : lines[k][1] # "outer"
    IN  Cardinality({k \in o..e : lines[k][1] = "vertex"})

\* some facet block has a number of vertex lines other than 3 between
\* outer loop and endloop
Malformed ==
    \E e \in 1..Len(lines) : lines[e][1] = "endloop" /\ VertexLinesBefore(e) # 3

ReadEnded == rpc \in {"returned", "IndexError"}

\* every facet block of the text has its endloop line
EveryBlockHasEndloop ==
    \A k \in 2..Len(lines) : lines[k][1] = "endfacet" => lines[k - 1][1] = "endloop"

\* C6: when the text has a facet block whose vertex lines between outer loop
\* and endloop are not 3, read_file leaves Facets and facetsID as they were
\* before the call (empty, on a new Solid): no facet of that text is added.
ParseFailureNoMutation ==
    (ReadEnded /\ EveryBlockHasEndloop /\ Malformed)
        => (Facets = <<>> /\ DOMAIN facetsID = {})

\* what the code does instead: when it prints the message it has stopped at
\* the endloop line of a malformed block, and the facets of the blocks read
\* before it stay in Facets and facetsID
ParseFailureKeepsEarlierFacets ==
    (rpc = "returned" /\ stdout # <<>>) =>
        /\ stdout = <<"Oops! One facet not 3 vertexs!">>
        /\ lines[i + 1][1] = "endloop" /\ Len(vertexs) # 3
        /\ Len(Facets) = cntf
        /\ Len(Facets) = Cardinality({k \in 1..i : lines[k][1] = "endfacet"})
        /\ \A f \in 1..Len(Facets) : facetsID[f - 1] = Facets[f]

=============================================================================
